---- MODULE Spec2Model ----
(***************************************************************************)
(* python-lomography: the windowed pagination fetcher                      *)
(* (lomography/utils/requests.py, _fetch_photo_dicts and its two copies),  *)
(* driven through the asynchronous facade (fetch_photos_async) or the      *)
(* synchronous one (fetch_photos -> run_async -> loop.run_until_complete). *)
(*                                                                         *)
(* Under Spec one behaviour is one windowed call on one client.  The       *)
(* upstream API holds `total` items in gap-free pages of PageSize; item    *)
(* k-1 of page p is represented by the number (p-1)*PageSize + k-1, its    *)
(* position in a gap-free upstream sequence.                               *)
(***************************************************************************)
EXTENDS Integers, Sequences, FiniteSets

\* Bounds of the model (not program constants).
MaxAmt == 22
MaxIndex == 22
MaxTotal == 24

\* Bound of the number of successive windowed calls on one client.
MaxCalls == 2

\* Bound of the windows asked for when upstream serves pages of any length.
RaggedMaxAmt == 3

\* The page size hard-coded in the page arithmetic (requests.py:67-68).
PageSize == 20

VARIABLES
    total,      \* number of items upstream holds
    facade,     \* "sync": fetch_photos/run_async, "async": fetch_photos_async
    pc,         \* position of the _fetch_photo_dicts coroutine
    amt,        \* argument amt
    index,      \* argument index
    page,       \* loop variable of `for page in range(start_page, end_page + 1)`
    tasks,      \* the list `tasks`: one record per created task, in creation order
    calls,      \* log of the page numbers passed to the fetch callback
    completed,  \* positions (in `tasks`) of the finished tasks, in completion order
    result,     \* the list returned to the caller (<<>> until the call returns)
    pagelen,    \* upstream: the number of items page p is served with
    objects,    \* what the facade returned: whether it has, and the wrapped items
    ncall,      \* number of windowed calls made on the client so far
    orphans,    \* tasks of earlier calls that are still pending on the loop
    prev,       \* what the previous call on the client returned (<<>> if none)
    lomo,       \* the Lomography object: its fields session, loop, own_loop, _own_loop
    op,         \* the last client-level operation: its name, argument and position
    outcome,    \* how that operation ended: its return value or the exception raised
    kind,       \* which copy of the fetcher is called: "photos", "cameras" or "films"
    duo,        \* two windowed calls running concurrently on one AsyncLomography
    nsess,      \* number of ClientSession objects constructed for the client
    turning     \* the event loop the calls run on is running

auxVars == <<pagelen, objects, ncall, orphans, prev, lomo, op, outcome,
             kind, duo, nsess, turning>>

vars == <<total, facade, pc, amt, index, page, tasks, calls, completed, result,
          pagelen, objects, ncall, orphans, prev, lomo, op, outcome,
          kind, duo, nsess, turning>>

\* No Lomography object has been constructed; no client-level operation was made.
NoClient ==
    [made |-> "no", cls |-> "none", supplied |-> "no", session |-> "none",
     loop |-> "none", own_loop |-> "unset", uown_loop |-> "unset"]

NoOp == [name |-> "none", arg |-> "none", pc |-> "done", body |-> "none"]

\* No concurrent pair of calls is modelled.
NoCalls == <<>>

Min(a, b) == IF a <= b THEN a ELSE b
Max(a, b) == IF a >= b THEN a ELSE b

(***************************************************************************)
(* Pure parts of the fetcher.                                              *)
(***************************************************************************)

\* Python floor division a // b for b > 0 (a may be negative: -1 // 20 = -1).
FloorDiv(a, b) == IF a >= 0 THEN a \div b ELSE -(((-a) + b - 1) \div b)

\* A 0-based first page number (the "+ 1" forgotten).
StartPageZeroBased(i) == FloorDiv(i, PageSize)

\* start_page = (index // 20) + 1
StartPage(i) == FloorDiv(i, PageSize) + 1

\* end_page = ((index + amt - 1) // 20) + 1
EndPage(a, i) == FloorDiv(i + a - 1, PageSize) + 1

\* s[:hi][-(hi - lo):] : the last hi - lo items of what was fetched up to hi.
PySliceTail(s, lo, hi) ==
    LET h == Min(hi, Len(s))
        l == Max(0, h - (hi - lo))
    IN  IF l >= h THEN <<>> ELSE SubSeq(s, l + 1, h)

\* s[lo:] : the upper bound index + amt left out.
PySliceToEnd(s, lo, hi) ==
    LET l == Min(lo, Len(s))
    IN  IF l >= Len(s) THEN <<>> ELSE SubSeq(s, l + 1, Len(s))

\* s[lo % 20 : lo % 20 + (hi - lo)] : the bounds taken relative to the first
\* fetched page instead of absolute.
PySlicePageLocal(s, lo, hi) ==
    LET l == Min(lo % PageSize, Len(s))
        h == Min((lo % PageSize) + (hi - lo), Len(s))
    IN  IF l >= h THEN <<>> ELSE SubSeq(s, l + 1, h)

\* Python's s[lo:hi] for lo, hi >= 0: both bounds clamped to len(s).
PySlice(s, lo, hi) ==
    LET l == Min(lo, Len(s))
        h == Min(hi, Len(s))
    IN  IF l >= h THEN <<>> ELSE SubSeq(s, l + 1, h)

\* [photo for result in results for photo in result["photos"]]
RECURSIVE Flatten(_)
Flatten(results) ==
    IF results = <<>> THEN <<>>
    ELSE Head(results) \o Flatten(Tail(results))

(***************************************************************************)
(* The upstream API behind the fetch callback: page p (1-based) of a       *)
(* gap-free paging of the items 0 .. total-1.                              *)
(***************************************************************************)
UpstreamPage(p) ==
    LET n == IF p \in DOMAIN pagelen THEN pagelen[p] ELSE 0
    IN  [k \in 1..n |-> (p - 1) * PageSize + k - 1]

\* The last page a call within the bounds can ask for.
MaxPage == (MaxIndex + MaxAmt - 1) \div PageSize + 1

\* The page lengths of a gap-free paging of t items.
GapFree(t) ==
    [p \in 1..MaxPage |-> Max(0, Min(PageSize, t - (p - 1) * PageSize))]

(***************************************************************************)
(* The three copies of the fetcher: _fetch_photo_dicts, _fetch_camera_dicts*)
(* and _fetch_film_dicts.  The response of an endpoint of kind kd is a     *)
(* dictionary with the fields "meta" and kd; the copy for kd reads         *)
(* result[kd].                                                             *)
(***************************************************************************)
Kinds == {"photos", "cameras", "films"}

\* PhotosResponseDict, CamerasResponseDict, FilmsResponseDict for page p.
Response(kd, p) ==
    [f \in {"meta", kd} |->
        IF f = "meta" THEN <<p, PageSize, total>> ELSE UpstreamPage(p)]

\* A cameras copy that skips the first item of every page it reads.
ItemsOfCamerasShifted(kd, resp) ==
    IF kd = "cameras" /\ resp["cameras"] # <<>> THEN Tail(resp["cameras"])
    ELSE resp[kd]

\* result["photos"], result["cameras"], result["films"] (lines 79, 108, 137).
ItemsOf(kd, resp) ==
    CASE kd = "photos" -> resp["photos"]
      [] kd = "cameras" -> resp["cameras"]
      [] kd = "films" -> resp["films"]

(***************************************************************************)
(* asyncio.gather: the results of the tasks in the order of its    *)
(* arguments, whatever the order the tasks finished in.                    *)
(***************************************************************************)
GatherResultsByCompletion ==
    [k \in 1..Len(completed) |-> UpstreamPage(tasks[completed[k]].page)]

GatherResults ==
    [k \in 1..Len(tasks) |-> ItemsOf(kind, Response(kind, tasks[k].page))]

AllDone == \A k \in 1..Len(tasks) : tasks[k].state = "done"
AnyFailed == \E k \in 1..Len(tasks) : tasks[k].state = "failed"

(***************************************************************************)
(* Where the calling coroutine gives control to the event loop: only at    *)
(* `await asyncio.gather`; create_task does not yield.             *)
(***************************************************************************)
SuspendedInLoop == pc \in {"loop", "gather"}

Suspended == pc = "gather"

(***************************************************************************)
(* The event loop runs the page-fetch tasks while it is running and the    *)
(* coroutine of the call is not: while the call is suspended, after it has *)
(* ended, and (pc = "start") in the turn before its first line.  The loop  *)
(* of the asynchronous facade keeps running.  loop.run_until_complete of   *)
(* the synchronous facade starts the loop and stops it by a callback that  *)
(* runs some turns after the coroutine has ended (LoopStop); the tasks     *)
(* still pending then stay on the stopped loop.                            *)
(***************************************************************************)
LoopRunsTasks ==
    /\ turning
    /\ Suspended \/ pc \in {"returned", "raised", "start"}

Init ==
    /\ total \in 0..MaxTotal
    /\ facade \in {"sync", "async"}
    /\ pc = "idle"
    /\ amt = 0
    /\ index = 0
    /\ page = 0
    /\ tasks = <<>>
    /\ calls = <<>>
    /\ completed = <<>>
    /\ result = <<>>
    /\ pagelen = GapFree(total)
    /\ objects = [returned |-> FALSE, list |-> <<>>]
    /\ ncall = 0
    /\ orphans = 0
    /\ prev = <<>>
    /\ lomo = NoClient
    /\ op = NoOp
    /\ outcome = "none"
    /\ kind = "photos"
    /\ duo = NoCalls
    /\ nsess = 0
    /\ turning = (facade = "async")

\* The first call on the client: the facade runs the coroutine (through
\* run_async -> loop.run_until_complete under the synchronous facade) up to
\* the entry of _fetch_photo_dicts(lomo, fetch, amt, index): lines 67-71.
Call(a, i) ==
    /\ pc = "idle"
    /\ amt' = a
    /\ index' = i
    /\ page' = StartPage(i)
    /\ pc' = "loop"
    /\ ncall' = 1
    /\ UNCHANGED <<total, facade, tasks, calls, completed, result>>
    /\ UNCHANGED <<pagelen, objects, orphans, prev, lomo, op, outcome>>
    /\ turning' = TRUE
    /\ UNCHANGED <<kind, duo, nsess>>

\* One iteration of the loop: task = asyncio.create_task(fetch(lomo, page)).
CreateTask ==
    /\ pc = "loop"
    /\ page <= EndPage(amt, index)
    /\ calls' = Append(calls, page)
    /\ tasks' = Append(tasks, [page |-> page, state |-> "pending"])
    /\ page' = page + 1
    /\ UNCHANGED <<total, facade, pc, amt, index, completed, result>>
    /\ UNCHANGED auxVars

\* The range is exhausted: the coroutine reaches `await asyncio.gather`.
AwaitGather ==
    /\ pc = "loop"
    /\ page > EndPage(amt, index)
    /\ pc' = "gather"
    /\ UNCHANGED <<total, facade, amt, index, page, tasks, calls, completed, result>>
    /\ UNCHANGED auxVars

\* The page fetch of task k completes with the decoded page.
TaskSucceed(k) ==
    /\ LoopRunsTasks
    /\ k \in 1..Len(tasks)
    /\ tasks[k].state = "pending"
    /\ tasks' = [tasks EXCEPT ![k].state = "done"]
    /\ completed' = Append(completed, k)
    /\ UNCHANGED <<total, facade, pc, amt, index, page, calls, result>>
    /\ UNCHANGED auxVars

\* A failed page fetch that is passed to the callback a second time.
TaskFailRetry(k) ==
    /\ LoopRunsTasks
    /\ k \in 1..Len(tasks)
    /\ tasks[k].state = "pending"
    /\ Len(calls) < 2 * Len(tasks)
    /\ calls' = Append(calls, tasks[k].page)
    /\ UNCHANGED <<total, facade, pc, amt, index, page, tasks, completed, result>>
    /\ UNCHANGED auxVars

\* The page fetch of task k raises (get() raises on a ClientError).
TaskFail(k) ==
    /\ LoopRunsTasks
    /\ k \in 1..Len(tasks)
    /\ tasks[k].state = "pending"
    /\ tasks' = [tasks EXCEPT ![k].state = "failed"]
    /\ completed' = Append(completed, k)
    /\ UNCHANGED <<total, facade, pc, amt, index, page, calls, result>>
    /\ UNCHANGED auxVars

\* A gather that hands back whatever pages were fetched once no task is pending.
GatherReturnPartial ==
    /\ pc = "gather"
    /\ \A k \in 1..Len(tasks) : tasks[k].state # "pending"
    /\ result' = PySlice(Flatten(
                    [k \in 1..Len(tasks) |->
                        IF tasks[k].state = "done"
                        THEN UpstreamPage(tasks[k].page) ELSE <<>>]),
                    index, index + amt)
    /\ pc' = "returned"
    /\ UNCHANGED <<total, facade, amt, index, page, tasks, calls, completed>>
    /\ UNCHANGED auxVars

\* gather delivers the results: lines 78-80.
GatherReturn ==
    /\ pc = "gather"
    /\ AllDone
    /\ result' = PySlice(Flatten(GatherResults), index, index + amt)
    /\ pc' = "returned"
    /\ UNCHANGED <<total, facade, amt, index, page, tasks, calls, completed>>
    /\ UNCHANGED auxVars

\* gather propagates the first exception of a task to the awaiting call (line 78).
GatherRaise ==
    /\ pc = "gather"
    /\ AnyFailed
    /\ pc' = "raised"
    /\ UNCHANGED <<total, facade, amt, index, page, tasks, calls, completed, result>>
    /\ UNCHANGED auxVars

(***************************************************************************)
(* The facades: fetch_photos / fetch_cameras / fetch_films wrap the items  *)
(* in LomoPhoto / LomoCamera / LomoFilm after run_async returned them, the *)
(* _async ones wrap them in AsyncLomoPhoto / AsyncLomoCamera /             *)
(* AsyncLomoFilm after the await; all keep the order of the list.          *)
(***************************************************************************)
WrapperClass(f, kd) ==
    CASE kd = "photos" -> IF f = "sync" THEN "LomoPhoto" ELSE "AsyncLomoPhoto"
      [] kd = "cameras" -> IF f = "sync" THEN "LomoCamera" ELSE "AsyncLomoCamera"
      [] kd = "films" -> IF f = "sync" THEN "LomoFilm" ELSE "AsyncLomoFilm"

Wrap(f, kd, items) ==
    [k \in 1..Len(items) |-> [cls |-> WrapperClass(f, kd), raw |-> items[k]]]

\* run_until_complete has handed the outcome of the coroutine to run_async
\* (synchronous facade); the await has ended (asynchronous facade).
HandedOver == facade = "async" \/ ~turning

\* Synchronous facade: the callback that run_until_complete attached to the
\* coroutine stops the loop; run_until_complete returns the result or raises
\* the exception (misc.py:20).
LoopStop ==
    /\ facade = "sync"
    /\ turning
    /\ pc \in {"returned", "raised"}
    /\ turning' = FALSE
    /\ UNCHANGED <<total, facade, pc, amt, index, page, tasks, calls, completed, result>>
    /\ UNCHANGED <<pagelen, objects, ncall, orphans, prev, lomo, op, outcome>>
    /\ UNCHANGED <<kind, duo, nsess>>

\* A synchronous facade that does not drive the coroutine to its end.
FacadeReturnEarly ==
    /\ IF facade = "sync" THEN pc \in {"gather", "returned"} ELSE pc = "returned"
    /\ ~objects.returned
    /\ objects' = [returned |-> TRUE, list |-> Wrap(facade, kind, result)]
    /\ UNCHANGED <<total, facade, pc, amt, index, page, tasks, calls, completed, result>>
    /\ UNCHANGED <<pagelen, ncall, orphans, prev, lomo, op, outcome>>
    /\ UNCHANGED <<kind, duo, nsess, turning>>

\* return [LomoPhoto(lomo, photo) for photo in photos] and its five
\* counterparts: requests.py:160, 182, 204, 226, 248, 270.
FacadeReturn ==
    /\ pc = "returned"
    /\ HandedOver
    /\ ~objects.returned
    /\ objects' = [returned |-> TRUE, list |-> Wrap(facade, kind, result)]
    /\ UNCHANGED <<total, facade, pc, amt, index, page, tasks, calls, completed, result>>
    /\ UNCHANGED <<pagelen, ncall, orphans, prev, lomo, op, outcome>>
    /\ UNCHANGED <<kind, duo, nsess, turning>>

Next ==
    \/ \E a \in 0..MaxAmt, i \in 0..MaxIndex : Call(a, i)
    \/ CreateTask
    \/ AwaitGather
    \/ \E k \in 1..Len(tasks) : TaskSucceed(k)
    \/ \E k \in 1..Len(tasks) : TaskFail(k)
    \/ GatherReturn
    \/ GatherRaise
    \/ LoopStop
    \/ FacadeReturn

Spec == Init /\ [][Next]_vars

(***************************************************************************)
(* The same fetcher against an upstream that serves every page with any    *)
(* number of items from 0 to PageSize (the "photos" list of the response   *)
(* is whatever upstream sends; the fetcher never reads the meta block).    *)
(***************************************************************************)
RaggedPages == (MaxIndex + RaggedMaxAmt - 1) \div PageSize + 1

\* The number of items on the pages 1 .. n.
RECURSIVE ItemsUpTo(_, _)
ItemsUpTo(lens, n) == IF n = 0 THEN 0 ELSE lens[n] + ItemsUpTo(lens, n - 1)

InitRagged ==
    /\ pagelen \in [1..RaggedPages -> 0..PageSize]
    /\ total = ItemsUpTo(pagelen, RaggedPages)
    /\ facade \in {"sync", "async"}
    /\ pc = "idle"
    /\ amt = 0
    /\ index = 0
    /\ page = 0
    /\ tasks = <<>>
    /\ calls = <<>>
    /\ completed = <<>>
    /\ result = <<>>
    /\ objects = [returned |-> FALSE, list |-> <<>>]
    /\ ncall = 0
    /\ orphans = 0
    /\ prev = <<>>
    /\ lomo = NoClient
    /\ op = NoOp
    /\ outcome = "none"
    /\ kind = "photos"
    /\ duo = NoCalls
    /\ nsess = 0
    /\ turning = (facade = "async")

NextRagged ==
    \/ \E a \in 0..RaggedMaxAmt, i \in 0..MaxIndex : Call(a, i)
    \/ CreateTask
    \/ AwaitGather
    \/ \E k \in 1..Len(tasks) : TaskSucceed(k)
    \/ \E k \in 1..Len(tasks) : TaskFail(k)
    \/ GatherReturn
    \/ GatherRaise
    \/ LoopStop
    \/ FacadeReturn

SpecRagged == InitRagged /\ [][NextRagged]_vars

(***************************************************************************)
(* The same call made through each of the three copies of the fetcher.     *)
(***************************************************************************)
KindTotals == {PageSize, MaxTotal}

InitKinds ==
    /\ total \in KindTotals
    /\ kind \in Kinds
    /\ facade \in {"sync", "async"}
    /\ pc = "idle"
    /\ amt = 0
    /\ index = 0
    /\ page = 0
    /\ tasks = <<>>
    /\ calls = <<>>
    /\ completed = <<>>
    /\ result = <<>>
    /\ pagelen = GapFree(total)
    /\ objects = [returned |-> FALSE, list |-> <<>>]
    /\ ncall = 0
    /\ orphans = 0
    /\ prev = <<>>
    /\ lomo = NoClient
    /\ op = NoOp
    /\ outcome = "none"
    /\ duo = NoCalls
    /\ nsess = 0
    /\ turning = (facade = "async")

SpecKinds == InitKinds /\ [][Next]_vars

(***************************************************************************)
(* Successive calls on one client.  Every call of _fetch_photo_dicts       *)
(* starts from fresh locals (tasks = [], line 71); nothing of an earlier   *)
(* call is kept but the tasks it left pending on the client's event loop.  *)
(* Between two calls upstream may change.                                  *)
(***************************************************************************)
NumPending == Cardinality({k \in 1..Len(tasks) : tasks[k].state = "pending"})

\* The facade has handed the outcome of the call to its caller.
CallOver ==
    \/ pc = "raised" /\ HandedOver
    \/ pc = "returned" /\ objects.returned

\* A second call that hands back the memoised list of the first one.
CallAgainCached ==
    /\ CallOver
    /\ ncall < MaxCalls
    /\ ncall' = ncall + 1
    /\ prev' = result
    /\ orphans' = orphans + NumPending
    /\ tasks' = <<>>
    /\ calls' = <<>>
    /\ completed' = <<>>
    /\ objects' = [returned |-> FALSE, list |-> <<>>]
    /\ pc' = IF pc = "returned" THEN "returned"
             ELSE IF facade = "sync" THEN "start" ELSE "loop"
    /\ page' = StartPage(index)
    /\ turning' = TRUE
    /\ UNCHANGED <<total, facade, amt, index, result, pagelen, lomo, op, outcome>>
    /\ UNCHANGED <<kind, duo, nsess>>

\* The caller asks for the same window again: a new _fetch_photo_dicts call.
\* Under the synchronous facade run_until_complete starts the loop again and
\* the loop first runs what is already queued on it (pc = "start"); under
\* the asynchronous one the await enters the coroutine at once.
CallAgain ==
    /\ CallOver
    /\ ncall < MaxCalls
    /\ ncall' = ncall + 1
    /\ prev' = result
    /\ orphans' = orphans + NumPending
    /\ tasks' = <<>>
    /\ calls' = <<>>
    /\ completed' = <<>>
    /\ result' = <<>>
    /\ objects' = [returned |-> FALSE, list |-> <<>>]
    /\ pc' = IF facade = "sync" THEN "start" ELSE "loop"
    /\ page' = StartPage(index)
    /\ turning' = TRUE
    /\ UNCHANGED <<total, facade, amt, index, pagelen, lomo, op, outcome>>
    /\ UNCHANGED <<kind, duo, nsess>>

\* The loop reaches the new coroutine: its first lines (67-71) run.
EnterCoroutine ==
    /\ pc = "start"
    /\ pc' = "loop"
    /\ UNCHANGED <<total, facade, amt, index, page, tasks, calls, completed, result>>
    /\ UNCHANGED auxVars

\* Upstream holds another number of items when the next call is made.
UpstreamChange(t) ==
    /\ CallOver
    /\ ncall < MaxCalls
    /\ t # total
    /\ total' = t
    /\ pagelen' = GapFree(t)
    /\ UNCHANGED <<facade, pc, amt, index, page, tasks, calls, completed, result>>
    /\ UNCHANGED <<objects, ncall, orphans, prev, lomo, op, outcome>>
    /\ UNCHANGED <<kind, duo, nsess, turning>>

\* A task left pending by an earlier call completes or fails on the loop.
OrphanStep ==
    /\ LoopRunsTasks
    /\ orphans > 0
    /\ orphans' = orphans - 1
    /\ UNCHANGED <<total, facade, pc, amt, index, page, tasks, calls, completed, result>>
    /\ UNCHANGED <<pagelen, objects, ncall, prev, lomo, op, outcome>>
    /\ UNCHANGED <<kind, duo, nsess, turning>>

RepeatTotals == {0, MaxTotal}

InitRepeat == Init /\ total \in RepeatTotals

TaskStep == \E k \in 1..Len(tasks) : TaskSucceed(k) \/ TaskFail(k)

GatherStep == GatherReturn \/ GatherRaise

NextRepeat ==
    \/ Next
    \/ CallAgain
    \/ EnterCoroutine
    \/ \E t \in RepeatTotals : UpstreamChange(t)
    \/ OrphanStep

(***************************************************************************)
(* Scheduling: a running event loop runs every ready task and resumes the  *)
(* coroutine whose gather is resolved; a coroutine that is not suspended   *)
(* runs on.  Nothing obliges the caller to make another call.              *)
(***************************************************************************)
SpecRepeat ==
    /\ InitRepeat
    /\ [][NextRepeat]_vars
    /\ WF_vars(CreateTask)
    /\ WF_vars(AwaitGather)
    /\ WF_vars(TaskStep)
    /\ WF_vars(GatherStep)
    /\ WF_vars(LoopStop)
    /\ WF_vars(EnterCoroutine)
    /\ WF_vars(FacadeReturn)
    /\ WF_vars(OrphanStep)

(***************************************************************************)
(* The synchronous client Lomography (base.py:162-212), the probe          *)
(* verify_authentication (api/__init__.py) and run_async (utils/misc.py).  *)
(* The event loop of the client is "stopped" (not running), running in the *)
(* thread that calls the client ("running_here": the caller is a coroutine *)
(* or callback of that loop), running in another thread                    *)
(* ("running_elsewhere"), or "closed".                                     *)
(***************************************************************************)
LoopIsRunning(l) == l \in {"running_here", "running_elsewhere"}

Idle == op.pc = "done"

\* Lomography.__init__(api_key, loop): arg is "none" for loop=None, else the
\* state of the loop that is passed in.
Construct(arg) ==
    /\ Idle
    /\ lomo.made = "no"
    /\ op' = [name |-> "init", arg |-> arg, pc |-> "done",
             body |-> "none"]
    /\ IF LoopIsRunning(arg) \/ arg = "closed"
       THEN \* loop.run_until_complete(create_session()) refuses a running
            \* loop and a closed one: no object, no session
            /\ outcome' = "RuntimeError"
            /\ lomo' = lomo
            /\ nsess' = nsess
       ELSE /\ outcome' = "ok"
            /\ nsess' = nsess + 1
            /\ lomo' = [made |-> "yes",
                        cls |-> "Lomography",
                        supplied |-> IF arg = "none" THEN "no" ELSE "yes",
                        session |-> "open",
                        loop |-> "stopped",
                        own_loop |-> IF arg = "none" THEN "True" ELSE "unset",
                        uown_loop |-> "False"]
    /\ UNCHANGED <<total, facade, pc, amt, index, page, tasks, calls, completed, result>>
    /\ UNCHANGED <<pagelen, objects, ncall, orphans, prev>>
    /\ UNCHANGED <<kind, duo, turning>>

\* AsyncLomography.__init__(api_key), base.py:627-633: no session yet.
AsyncConstruct ==
    /\ Idle
    /\ lomo.made = "no"
    /\ op' = [name |-> "init", arg |-> "async", pc |-> "done", body |-> "none"]
    /\ outcome' = "ok"
    /\ lomo' = [NoClient EXCEPT !.made = "yes", !.cls = "AsyncLomography"]
    /\ UNCHANGED <<total, facade, pc, amt, index, page, tasks, calls, completed, result>>
    /\ UNCHANGED <<pagelen, objects, ncall, orphans, prev>>
    /\ UNCHANGED <<kind, duo, nsess, turning>>

\* The application starts running the client's loop, in the calling thread
\* (the client is then used from inside the loop) or in another thread.
StartLoop(where) ==
    /\ Idle
    /\ lomo.made = "yes"
    /\ lomo.loop = "stopped"
    /\ lomo' = [lomo EXCEPT !.loop = where]
    /\ UNCHANGED <<total, facade, pc, amt, index, page, tasks, calls, completed, result>>
    /\ UNCHANGED <<pagelen, objects, ncall, orphans, prev, op, outcome>>
    /\ UNCHANGED <<kind, duo, nsess, turning>>

StopLoop ==
    /\ Idle
    /\ lomo.made = "yes"
    /\ LoopIsRunning(lomo.loop)
    /\ lomo' = [lomo EXCEPT !.loop = "stopped"]
    /\ UNCHANGED <<total, facade, pc, amt, index, page, tasks, calls, completed, result>>
    /\ UNCHANGED <<pagelen, objects, ncall, orphans, prev, op, outcome>>
    /\ UNCHANGED <<kind, duo, nsess, turning>>

\* Lomography.close(), base.py:202-212, called directly (via = "close") or by
\* __exit__ at the end of a `with` block (via = "__exit__"), which lets what
\* close() raises through; body says how the block ended ("normal", "raised";
\* "none" for a direct call): __exit__ ignores it.
Close(via, body) ==
    /\ Idle
    /\ lomo.made = "yes"
    /\ lomo.cls = "Lomography"
    /\ op' = [name |-> via, arg |-> lomo.loop, pc |-> "done", body |-> body]
    /\ IF lomo.loop = "closed"
       THEN \* if not self.loop.is_closed(): skipped
            /\ outcome' = "ok"
            /\ lomo' = lomo
       ELSE IF LoopIsRunning(lomo.loop)
       THEN \* run_until_complete raises: the loop is already running
            /\ outcome' = "RuntimeError"
            /\ lomo' = lomo
       ELSE \* run_until_complete(super().close()), then `if self.own_loop:`
            IF lomo.own_loop = "unset"
            THEN /\ outcome' = "AttributeError"
                 /\ lomo' = [lomo EXCEPT !.session = "closed"]
            ELSE /\ outcome' = "ok"
                 /\ lomo' = [lomo EXCEPT !.session = "closed", !.loop = "closed"]
    /\ UNCHANGED <<total, facade, pc, amt, index, page, tasks, calls, completed, result>>
    /\ UNCHANGED <<pagelen, objects, ncall, orphans, prev>>
    /\ UNCHANGED <<kind, duo, nsess, turning>>

(***************************************************************************)
(* Exceptions.  get() lets the aiohttp errors through (`except ClientError *)
(* as e: raise e`): ClientResponseError from raise_for_status() on a       *)
(* non-success status, ClientConnectorError on a network failure.          *)
(* verify_authentication catches requests.HTTPError.                       *)
(***************************************************************************)
Bases(exc) ==
    CASE exc = "aiohttp.ClientResponseError" ->
            {"aiohttp.ClientResponseError", "aiohttp.ClientError", "Exception"}
      [] exc = "aiohttp.ClientConnectorError" ->
            {"aiohttp.ClientConnectorError", "aiohttp.ClientOSError",
             "aiohttp.ClientConnectionError", "aiohttp.ClientError",
             "OSError", "Exception"}
      [] OTHER -> {exc, "Exception"}

\* A get() without response.raise_for_status(): the body of an error answer
\* is decoded like a page.
GetOutcomeUnchecked(session, answer) ==
    CASE session = "closed" -> "RuntimeError"
      [] answer = "network_error" -> "aiohttp.ClientConnectorError"
      [] OTHER -> "json"

\* What get() does for the answer upstream gives to the request; a closed
\* ClientSession is kept by create_session and refuses the request.
GetOutcome(session, answer) ==
    CASE session = "closed" -> "RuntimeError"
      [] answer = "success" -> "json"
      [] answer = "status_error" -> "aiohttp.ClientResponseError"
      [] OTHER -> "aiohttp.ClientConnectorError"

\* A create_session that opens a new session for every request.
NeedsSessionPerRequest(session) == TRUE

\* A create_session that replaces a session that has been closed.
NeedsSessionReopen(session) == session \in {"none", "closed"}

\* BaseLomography.create_session: `if not self.session:`; a ClientSession,
\* open or closed, is truthy.
NeedsSession(session) == session = "none"

\* self.session after create_session().
CreateSession(session) == IF NeedsSession(session) THEN "open" ELSE session

\* The number of ClientSession objects constructed by create_session().
Constructed(session) == IF NeedsSession(session) THEN 1 ELSE 0

\* The application awaits the public coroutine create_session() itself
\* (base.py:48-50): the client gets a session if it has none; no request is
\* sent and nothing is left in progress.
AwaitCreateSession ==
    /\ lomo.made = "yes"
    /\ \A c \in 1..Len(duo) : duo[c].pc # "loop"
    /\ lomo' = [lomo EXCEPT !.session = CreateSession(@)]
    /\ nsess' = nsess + Constructed(lomo.session)
    /\ UNCHANGED <<total, facade, pc, amt, index, page, tasks, calls, completed, result>>
    /\ UNCHANGED <<pagelen, objects, ncall, orphans, prev, op, outcome>>
    /\ UNCHANGED <<kind, duo, turning>>

\* BaseLomography.close(), awaited directly or by AsyncLomography.__aexit__
\* (base.py:52-55, 638-639): `if self.session: await self.session.close()`.
\* It can run while a request of the client is waiting for its answer.
AsyncClose(via, body) ==
    /\ Idle \/ op.pc = "requesting"
    /\ lomo.made = "yes"
    /\ lomo.cls = "AsyncLomography"
    /\ \A c \in 1..Len(duo) : duo[c].pc # "loop"
    /\ IF Idle
       THEN /\ op' = [name |-> via, arg |-> lomo.session, pc |-> "done", body |-> body]
            /\ outcome' = "ok"
       ELSE \* a request of the client is in flight and stays the operation in progress
            UNCHANGED <<op, outcome>>
    /\ lomo' = [lomo EXCEPT !.session = IF @ = "none" THEN "none" ELSE "closed"]
    /\ UNCHANGED <<total, facade, pc, amt, index, page, tasks, calls, completed, result>>
    /\ UNCHANGED <<pagelen, objects, ncall, orphans, prev>>
    /\ UNCHANGED <<kind, duo, nsess, turning>>

\* `except HTTPError:` with HTTPError imported from requests.
ProbeHandler == "requests.HTTPError"

(***************************************************************************)
(* The operations that make one request through get(): the probe           *)
(* verify_authentication(lomo) (api/__init__.py:14-29) and the public      *)
(* fetch_camera_by_id / fetch_film_by_id of both clients (base.py:280-293, *)
(* 361-373, 706-718, 785-797).  get() runs create_session(), sends the     *)
(* request and is suspended until upstream answers; meanwhile other        *)
(* coroutines of an AsyncLomography client run.                            *)
(***************************************************************************)
Requests == {"verify_authentication", "fetch_camera_by_id", "fetch_film_by_id"}

InFlight == op.name \in Requests /\ op.pc = "requesting"

\* What the operation hands back for a decoded answer.
Decoded(name, cls) ==
    CASE name = "verify_authentication" -> "True"
      [] name = "fetch_camera_by_id" ->
            IF cls = "Lomography" THEN "LomoCamera" ELSE "AsyncLomoCamera"
      [] name = "fetch_film_by_id" ->
            IF cls = "Lomography" THEN "LomoFilm" ELSE "AsyncLomoFilm"

\* What the operation does with the exception exc raised by get().
Handled(name, exc) ==
    IF name = "verify_authentication" /\ ProbeHandler \in Bases(exc)
    THEN "False" ELSE exc

\* The operation is called and runs up to the request.  The probe is a bare
\* coroutine; the by-id methods of Lomography go through run_async, which
\* refuses a closed loop and blocks for ever on a loop run by the caller.
RequestCall(name) ==
    /\ Idle
    /\ lomo.made = "yes"
    /\ IF name # "verify_authentication" /\ lomo.cls = "Lomography"
          /\ lomo.loop \in {"closed", "running_here"}
       THEN /\ op' = [name |-> name, arg |-> "none", body |-> "none",
                      pc |-> IF lomo.loop = "closed" THEN "done" ELSE "future.result"]
            /\ outcome' = IF lomo.loop = "closed" THEN "RuntimeError" ELSE "pending"
            /\ UNCHANGED <<lomo, nsess>>
       ELSE /\ lomo' = [lomo EXCEPT !.session = CreateSession(@)]
            /\ nsess' = nsess + Constructed(lomo.session)
            /\ IF GetOutcome(CreateSession(lomo.session), "success") = "json"
               THEN /\ op' = [name |-> name, arg |-> "none", body |-> "none",
                              pc |-> "requesting"]
                    /\ outcome' = "pending"
               ELSE /\ op' = [name |-> name, arg |-> "none", body |-> "none",
                              pc |-> "done"]
                    /\ outcome' = Handled(name,
                                    GetOutcome(CreateSession(lomo.session), "success"))
    /\ UNCHANGED <<total, facade, pc, amt, index, page, tasks, calls, completed, result>>
    /\ UNCHANGED <<pagelen, objects, ncall, orphans, prev>>
    /\ UNCHANGED <<kind, duo, turning>>

\* Upstream answers: get() returns the decoded answer or raises, and the
\* operation ends.
RequestReturn(answer) ==
    /\ InFlight
    /\ op' = [op EXCEPT !.arg = answer, !.pc = "done"]
    /\ outcome' =
         IF GetOutcome("open", answer) = "json"
         THEN Decoded(op.name, lomo.cls)
         ELSE Handled(op.name, GetOutcome("open", answer))
    /\ UNCHANGED <<total, facade, pc, amt, index, page, tasks, calls, completed, result>>
    /\ UNCHANGED <<pagelen, objects, ncall, orphans, prev, lomo>>
    /\ UNCHANGED <<kind, duo, nsess, turning>>

\* run_async(lomo, coroutine), misc.py:16-26; how says how the coroutine ends
\* once it is run: with a value or with an exception.
RunAsyncCall(how) ==
    /\ Idle
    /\ lomo.made = "yes"
    /\ lomo.cls = "Lomography"
    /\ IF lomo.loop = "closed"
       THEN \* is_running() is False and run_until_complete refuses a closed loop
            /\ op' = [name |-> "run_async", arg |-> how, pc |-> "done",
             body |-> "none"]
            /\ outcome' = "RuntimeError"
       ELSE IF ~LoopIsRunning(lomo.loop)
       THEN \* loop.run_until_complete(coroutine): this call drives the loop
            /\ op' = [name |-> "run_async", arg |-> how, pc |-> "run_until_complete",
             body |-> "none"]
            /\ outcome' = "pending"
       ELSE \* run_coroutine_threadsafe(coroutine, loop); future.result() blocks
            /\ op' = [name |-> "run_async", arg |-> how, pc |-> "future.result",
             body |-> "none"]
            /\ outcome' = "pending"
    /\ UNCHANGED <<total, facade, pc, amt, index, page, tasks, calls, completed, result>>
    /\ UNCHANGED <<pagelen, objects, ncall, orphans, prev, lomo>>
    /\ UNCHANGED <<kind, duo, nsess, turning>>

\* The loop runs the coroutine to its end and run_async hands the outcome
\* over.  A loop whose own thread is blocked in future.result() runs nothing.
CoroutineFinish ==
    /\ op.name = "run_async"
    /\ \/ op.pc = "run_until_complete"
       \/ op.pc = "future.result" /\ lomo.loop = "running_elsewhere"
    /\ op' = [op EXCEPT !.pc = "done"]
    /\ outcome' = IF op.arg = "value" THEN "returned" ELSE "raised"
    /\ UNCHANGED <<total, facade, pc, amt, index, page, tasks, calls, completed, result>>
    /\ UNCHANGED <<pagelen, objects, ncall, orphans, prev, lomo>>
    /\ UNCHANGED <<kind, duo, nsess, turning>>

NextClient ==
    \/ \E arg \in {"none", "stopped", "running_here", "running_elsewhere",
                   "closed"} :
            Construct(arg)
    \/ \E where \in {"running_here", "running_elsewhere"} : StartLoop(where)
    \/ StopLoop
    \/ AsyncConstruct
    \/ AwaitCreateSession
    \/ Close("close", "none")
    \/ \E body \in {"normal", "raised"} : Close("__exit__", body)
    \/ AsyncClose("close", "none")
    \/ \E body \in {"normal", "raised"} : AsyncClose("__aexit__", body)
    \/ \E name \in Requests : RequestCall(name)
    \/ \E answer \in {"success", "status_error", "network_error"} :
            RequestReturn(answer)
    \/ \E how \in {"value", "exception"} : RunAsyncCall(how)
    \/ CoroutineFinish

InitClient == Init /\ total = 0 /\ facade = "sync"

SpecClient == InitClient /\ [][NextClient]_vars

(***************************************************************************)
(* Two windowed calls running concurrently on one AsyncLomography client,  *)
(* for instance under one asyncio.gather of the application.  Each call c  *)
(* has its own locals in duo[c]; the client and its session are shared.    *)
(* The event loop is single-threaded: a coroutine runs until it awaits, so *)
(* while a call executes its task-creation loop nothing else runs.         *)
(* A page-fetch task runs fetch -> get(): create_session(), then the       *)
(* request on lomo.session, then the decoding of the answer.               *)
(***************************************************************************)
PairAmts == {1, PageSize + 1}
PairIndexes == {0, PageSize - 1}
PairTotals == {MaxTotal}

NewCall ==
    [pc |-> "idle", amt |-> 0, index |-> 0, page |-> 0,
     tasks |-> <<>>, calls |-> <<>>, result |-> <<>>]

\* No coroutine is in the middle of a run that does not await.
LoopFree == \A d \in 1..Len(duo) : duo[d].pc # "loop"

OthersSuspended(c) == \A d \in 1..Len(duo) : d # c => duo[d].pc # "loop"

fetchVars == <<total, facade, pc, amt, index, page, tasks, calls, completed, result,
               pagelen, objects, ncall, orphans, prev, kind, turning>>

\* Entry of the fetcher for call c: lines 67-71.
PairCall(c, a, i) ==
    /\ lomo.cls = "AsyncLomography"
    /\ Idle
    /\ OthersSuspended(c)
    /\ duo[c].pc = "idle"
    /\ duo' = [duo EXCEPT ![c] = [pc |-> "loop", amt |-> a, index |-> i,
                                  page |-> StartPage(i), tasks |-> <<>>,
                                  calls |-> <<>>, result |-> <<>>]]
    /\ UNCHANGED <<fetchVars, lomo, op, outcome, nsess>>

\* A task list shared by the calls instead of the local `tasks = []`.
PairCreateTaskShared(c) ==
    /\ duo[c].pc = "loop"
    /\ duo[c].page <= EndPage(duo[c].amt, duo[c].index)
    /\ duo' = [d \in 1..Len(duo) |->
                 IF d = c
                 THEN [duo[d] EXCEPT
                        !.calls = Append(@, duo[c].page),
                        !.tasks = Append(@, [page |-> duo[c].page, state |-> "pending",
                                             on |-> 0, answer |-> "none"]),
                        !.page = @ + 1]
                 ELSE [duo[d] EXCEPT
                        !.tasks = Append(@, [page |-> duo[c].page, state |-> "pending",
                                             on |-> 0, answer |-> "none"])]]
    /\ UNCHANGED <<fetchVars, lomo, op, outcome, nsess>>

\* task = asyncio.create_task(fetch(lomo, page)); tasks.append(task)
PairCreateTask(c) ==
    /\ duo[c].pc = "loop"
    /\ duo[c].page <= EndPage(duo[c].amt, duo[c].index)
    /\ duo' = [duo EXCEPT
                 ![c].calls = Append(@, duo[c].page),
                 ![c].tasks = Append(@, [page |-> duo[c].page, state |-> "pending",
                                         on |-> 0, answer |-> "none"]),
                 ![c].page = @ + 1]
    /\ UNCHANGED <<fetchVars, lomo, op, outcome, nsess>>

\* The call reaches `await asyncio.gather` and is suspended.
PairAwaitGather(c) ==
    /\ duo[c].pc = "loop"
    /\ duo[c].page > EndPage(duo[c].amt, duo[c].index)
    /\ duo' = [duo EXCEPT ![c].pc = "gather"]
    /\ UNCHANGED <<fetchVars, lomo, op, outcome, nsess>>

\* Task k of call c starts: get() awaits create_session() and sends the
\* request on lomo.session; `on` is the number of the session it uses.
PairTaskBegin(c, k) ==
    /\ LoopFree
    /\ k \in 1..Len(duo[c].tasks)
    /\ duo[c].tasks[k].state = "pending"
    /\ lomo' = [lomo EXCEPT !.session = CreateSession(@)]
    /\ nsess' = nsess + Constructed(lomo.session)
    /\ duo' = [duo EXCEPT ![c].tasks[k] =
                 IF GetOutcome(CreateSession(lomo.session), "success") = "json"
                 THEN [@ EXCEPT !.state = "requesting",
                                !.on = nsess + Constructed(lomo.session)]
                 ELSE [@ EXCEPT !.state = "failed",
                                !.on = nsess + Constructed(lomo.session),
                                !.answer = GetOutcome(CreateSession(lomo.session),
                                                      "success")]]
    /\ UNCHANGED <<fetchVars, op, outcome>>

\* Upstream answers the request of task k of call c; get() returns the
\* decoded page or raises.
PairTaskEnd(c, k, answer) ==
    /\ LoopFree
    /\ k \in 1..Len(duo[c].tasks)
    /\ duo[c].tasks[k].state = "requesting"
    /\ duo' = [duo EXCEPT ![c].tasks[k] =
                 [@ EXCEPT !.answer = answer,
                           !.state = IF GetOutcome("open", answer) = "json"
                                     THEN "done" ELSE "failed"]]
    /\ UNCHANGED <<fetchVars, lomo, op, outcome, nsess>>

\* gather delivers the results of the call's own tasks: lines 78-80.
PairGatherReturn(c) ==
    /\ LoopFree
    /\ duo[c].pc = "gather"
    /\ \A k \in 1..Len(duo[c].tasks) : duo[c].tasks[k].state = "done"
    /\ duo' = [duo EXCEPT
                 ![c].pc = "returned",
                 ![c].result =
                     PySlice(Flatten([k \in 1..Len(duo[c].tasks) |->
                                 ItemsOf(kind, Response(kind, duo[c].tasks[k].page))]),
                             duo[c].index, duo[c].index + duo[c].amt)]
    /\ UNCHANGED <<fetchVars, lomo, op, outcome, nsess>>

\* gather re-raises the failure of one of the call's own tasks.
PairGatherRaise(c) ==
    /\ LoopFree
    /\ duo[c].pc = "gather"
    /\ \E k \in 1..Len(duo[c].tasks) : duo[c].tasks[k].state = "failed"
    /\ duo' = [duo EXCEPT ![c].pc = "raised"]
    /\ UNCHANGED <<fetchVars, lomo, op, outcome, nsess>>

InitPair ==
    /\ total \in PairTotals
    /\ kind = "photos"
    /\ facade = "async"
    /\ pc = "idle"
    /\ amt = 0
    /\ index = 0
    /\ page = 0
    /\ tasks = <<>>
    /\ calls = <<>>
    /\ completed = <<>>
    /\ result = <<>>
    /\ pagelen = GapFree(total)
    /\ objects = [returned |-> FALSE, list |-> <<>>]
    /\ ncall = 0
    /\ orphans = 0
    /\ prev = <<>>
    /\ lomo = NoClient
    /\ op = NoOp
    /\ outcome = "none"
    /\ duo = <<NewCall, NewCall>>
    /\ nsess = 0
    /\ turning = (facade = "async")

NextPair ==
    \/ AsyncConstruct
    \/ \E c \in 1..2, a \in PairAmts, i \in PairIndexes : PairCall(c, a, i)
    \/ \E c \in 1..2 : PairCreateTask(c)
    \/ \E c \in 1..2 : PairAwaitGather(c)
    \/ \E c \in 1..2 : \E k \in 1..Len(duo[c].tasks) : PairTaskBegin(c, k)
    \/ \E c \in 1..2 : \E k \in 1..Len(duo[c].tasks) :
          \E answer \in {"success", "status_error", "network_error"} :
              PairTaskEnd(c, k, answer)
    \/ \E c \in 1..2 : PairGatherReturn(c)
    \/ \E c \in 1..2 : PairGatherRaise(c)
    \/ AwaitCreateSession
    \/ AsyncClose("close", "none")

SpecPair == InitPair /\ [][NextPair]_vars

(***************************************************************************)
(* Vocabulary of the properties.                                           *)
(***************************************************************************)
Issued == pc \in {"gather", "returned", "raised"}
Ended == pc \in {"returned", "raised"}

\* The page numbers s, s+1, .. e in ascending order (<<>> when e < s).
PageRange(s, e) == [k \in 1..Max(0, e - s + 1) |-> s + k - 1]

\* The pages s .. e of upstream concatenated in ascending page number.
RECURSIVE ConcatAscending(_, _)
ConcatAscending(s, e) ==
    IF s > e THEN <<>> ELSE UpstreamPage(s) \o ConcatAscending(s + 1, e)

\* The items at positions [index, index + amt) of the full upstream sequence.
UpstreamWindow ==
    [k \in 1..Min(amt, Max(0, total - index)) |-> index + k - 1]

\* r is a run of consecutive elements of s, in the order they have in s.
IsRunOf(r, s) ==
    \E lo \in 0..Len(s) :
        /\ lo + Len(r) <= Len(s)
        /\ \A k \in 1..Len(r) : r[k] = s[lo + k]

(***************************************************************************)
(* C1: when all fetches succeed, the returned list is exactly the items at *)
(* positions [index, index + amt) of the full upstream sequence, also when *)
(* the window starts on page 2 or later (index >= 20).                     *)
(* Stated as claimed; the code slices the concatenation of pages           *)
(* startPage..endPage at the absolute bounds [index, index + amt).         *)
(***************************************************************************)
C1_ExactWindow ==
    pc = "returned" => result = UpstreamWindow

(***************************************************************************)
(* C2: when all fetches succeed, the length of the returned list is        *)
(* min(amt, max(0, total - index)).  Stated as claimed.                    *)
(***************************************************************************)
C2_Length ==
    pc = "returned" => Len(result) = Min(amt, Max(0, total - index))

(***************************************************************************)
(* C3: for a window of two or more pages the returned items are in the     *)
(* order of the concatenation of pages startPage..endPage in ascending     *)
(* page number, whatever the order in which the tasks completed.           *)
(***************************************************************************)
C3_PageOrder ==
    (pc = "returned" /\ Len(tasks) >= 2) =>
        IsRunOf(result,
                ConcatAscending(index \div PageSize + 1,
                                (index + amt - 1) \div PageSize + 1))

\* A two-page call whose second page completed first returned items of both pages.
C3_Witness ==
    /\ pc = "returned"
    /\ Len(tasks) >= 2
    /\ completed[1] > completed[2]
    /\ Len(result) >= 2
    /\ result[1] < PageSize
    /\ result[Len(result)] >= PageSize

(***************************************************************************)
(* C4: for amt = 0 and every index >= 0, also one that is not a multiple   *)
(* of 20, the page-fetch callback is invoked zero times.  Stated as        *)
(* claimed; the code has no guard for amt = 0 and computes                 *)
(* end_page = start_page whenever index is not a multiple of 20, so it     *)
(* creates one fetch task.                                                 *)
(***************************************************************************)
C4_NoFetchWhenAmtZero ==
    (pc # "idle" /\ amt = 0) => calls = <<>>

(***************************************************************************)
(* C5: if any page fetch of a call failed, the call ends with an error and *)
(* returns no items; the pages fetched successfully are not returned.      *)
(***************************************************************************)
C5_FailureIsTotal ==
    (Ended /\ AnyFailed) => (pc = "raised" /\ result = <<>>)

\* The call raised although one of its pages had been fetched with items in it.
C5_Witness ==
    /\ pc = "raised"
    /\ \E k \in 1..Len(tasks) :
        /\ tasks[k].state = "done"
        /\ UpstreamPage(tasks[k].page) # <<>>
    /\ \E k \in 1..Len(tasks) : tasks[k].state = "failed"

(***************************************************************************)
(* C6: for amt >= 1 the callback is invoked exactly once for each page p   *)
(* with floor(index/20)+1 <= p <= floor((index+amt-1)/20)+1 and for no     *)
(* other page; amt = 20, index = 0 fetches page 1 only.                    *)
(***************************************************************************)
C6_ExactlyRequiredPages ==
    (Issued /\ amt >= 1) =>
        calls = PageRange(index \div PageSize + 1,
                          (index + amt - 1) \div PageSize + 1)

\* A call over three pages has issued its fetches.
C6_Witness ==
    /\ Issued
    /\ amt >= 1
    /\ Len(calls) = 3

(***************************************************************************)
(* C7: a successful call is never shorter than what upstream could have    *)
(* supplied: fewer than amt items returned implies upstream holds fewer    *)
(* than index + amt items.  Stated as claimed.                             *)
(***************************************************************************)
C7_NeverShort ==
    (pc = "returned" /\ Len(result) < amt) => total < index + amt

(***************************************************************************)
(* C8 as claimed: when index >= total the fetches of the computed page     *)
(* range are still issued, the pages come back empty, and the call returns *)
(* an empty list without raising.                                          *)
(***************************************************************************)
C8_BeyondEndPagesEmpty ==
    (index >= total /\ amt >= 1 /\ Ended /\ ~AnyFailed) =>
        /\ pc = "returned"
        /\ result = <<>>
        /\ calls = PageRange(StartPage(index), EndPage(amt, index))
        /\ \A k \in 1..Len(tasks) : UpstreamPage(tasks[k].page) = <<>>

(***************************************************************************)
(* C8 amended: when index >= total the fetches of the computed page range  *)
(* are still issued, the pages come back empty or hold only items that     *)
(* precede index, and the call returns an empty list without raising.      *)
(***************************************************************************)
C8_BeyondEnd ==
    (index >= total /\ Ended /\ ~AnyFailed) =>
        /\ pc = "returned"
        /\ result = <<>>
        /\ calls = PageRange(StartPage(index), EndPage(amt, index))
        /\ \A k \in 1..Len(tasks) :
            \A j \in 1..Len(UpstreamPage(tasks[k].page)) :
                UpstreamPage(tasks[k].page)[j] < index

\* A call at an index beyond the data returned after fetching two pages,
\* the first of which held items.
C8_Witness ==
    /\ pc = "returned"
    /\ index >= total
    /\ Len(calls) = 2
    /\ UpstreamPage(tasks[1].page) # <<>>
    /\ UpstreamPage(tasks[2].page) = <<>>

(***************************************************************************)
(* C9: the call does not end, with a result or with an error, while a      *)
(* page-fetch task it issued is still pending.  Stated as claimed.         *)
(***************************************************************************)
C9_Barrier ==
    Ended => \A k \in 1..Len(tasks) : tasks[k].state # "pending"

(***************************************************************************)
(* C10: every required page fetch is started (its task created) before    *)
(* the call waits for any of them: while the loop still has a page to      *)
(* issue, the call is not waiting and no task has finished.                *)
(***************************************************************************)
C10_AllIssuedBeforeWaiting ==
    (pc = "gather" \/ \E k \in 1..Len(tasks) : tasks[k].state # "pending") =>
        /\ page > EndPage(amt, index)
        /\ Len(tasks) = Max(0, EndPage(amt, index) - StartPage(index) + 1)

\* The call waits on three tasks, one finished and the others still pending.
C10_Witness ==
    /\ pc = "gather"
    /\ Len(tasks) = 3
    /\ tasks[3].state = "done"
    /\ tasks[1].state = "pending"
    /\ tasks[2].state = "pending"

(***************************************************************************)
(* C12: for amt = 0 and every index >= 0 the call returns an empty list:   *)
(* every such call ends by returning, and what it returns is empty.        *)
(* Stated as claimed; the page the code fetches for amt = 0 when index is  *)
(* not a multiple of 20 may fail, and the call then ends with that error.  *)
(***************************************************************************)
C12_AlwaysReturnsEmpty ==
    (amt = 0 /\ Ended) => (pc = "returned" /\ result = <<>>)

(***************************************************************************)
(* C13: for the same window and upstream data the synchronous facade       *)
(* issues the same page fetches and returns objects wrapping the same raw  *)
(* items in the same order as the asynchronous facade, and returns only    *)
(* after the asynchronous fetch logic has completed: under either facade   *)
(* the fetches and the wrapped items are the same function of (amt, index) *)
(* and the upstream pages.                                                 *)
(***************************************************************************)
C13_FacadesAgree ==
    objects.returned =>
        /\ pc = "returned"
        /\ calls = PageRange(StartPage(index), EndPage(amt, index))
        /\ [k \in 1..Len(objects.list) |-> objects.list[k].raw] =
               PySlice(ConcatAscending(StartPage(index), EndPage(amt, index)),
                       index, index + amt)
        /\ \A k \in 1..Len(objects.list) :
               objects.list[k].cls = WrapperClass(facade, kind)

\* The synchronous facade returned objects for a window over two pages.
C13_Witness ==
    /\ facade = "sync"
    /\ objects.returned
    /\ Len(objects.list) >= 2
    /\ Len(calls) = 2
    /\ objects.list[1].raw < PageSize
    /\ objects.list[Len(objects.list)].raw >= PageSize

(***************************************************************************)
(* C14: no retry: within one call each page number is passed to the        *)
(* callback at most once, also when that fetch or another one fails.       *)
(***************************************************************************)
C14_NoRetry ==
    \A i, j \in 1..Len(calls) : i # j => calls[i] # calls[j]

\* A call over several pages ended after one of its fetches failed.
C14_Witness ==
    /\ pc = "raised"
    /\ Len(calls) >= 2
    /\ tasks[1].state = "failed"
    /\ \A k \in 1..Len(tasks) : tasks[k].state # "pending"

(***************************************************************************)
(* C11: for every amt, index and upstream content the list returned by a   *)
(* successful call has at most amt items.                                  *)
(***************************************************************************)
C11_AtMostAmt ==
    pc = "returned" => Len(result) <= amt

\* A call returned amt >= 1 items although the fetched pages held more after them.
C11_Witness ==
    /\ pc = "returned"
    /\ amt >= 1
    /\ Len(result) = amt
    /\ Len(Flatten(GatherResults)) > index + amt
    /\ \E k \in 1..Len(tasks) : Len(UpstreamPage(tasks[k].page)) < PageSize

(***************************************************************************)
(* C15: when upstream serves pages of any length 0..20, a call whose       *)
(* fetches all succeed does not raise: the slice is clamped to the length  *)
(* of the concatenation of the fetched pages and the result is the run of  *)
(* its items from position index up to index + amt or its end.             *)
(***************************************************************************)
C15_ClampedRun ==
    LET concat == ConcatAscending(index \div PageSize + 1,
                                  (index + amt - 1) \div PageSize + 1)
    IN  /\ (Ended /\ ~AnyFailed) => pc = "returned"
        /\ pc = "returned" =>
            /\ Len(result) = Max(0, Min(index + amt, Len(concat)) - index)
            /\ \A k \in 1..Len(result) : result[k] = concat[index + k]

\* Two short pages were fetched and the window ran past the end of their items.
C15_Witness ==
    /\ pc = "returned"
    /\ Len(tasks) = 2
    /\ \A k \in 1..2 : Len(UpstreamPage(tasks[k].page)) \in 1..(PageSize - 1)
    /\ Len(Flatten(GatherResults)) > index
    /\ Len(Flatten(GatherResults)) < index + amt
    /\ Len(result) >= 1

(***************************************************************************)
(* C18: no page data is kept across calls: each of two successive calls    *)
(* with the same (amt, index) invokes the callback for the full computed   *)
(* page range, and the list a call hands back is made only of the pages as *)
(* upstream serves them to that call, whatever an earlier call fetched or  *)
(* returned.                                                               *)
(***************************************************************************)
C18_NoCaching ==
    /\ Issued => calls = PageRange(index \div PageSize + 1,
                                   (index + amt - 1) \div PageSize + 1)
    /\ (pc = "returned" /\ ~objects.returned) =>
        result = PySlice(ConcatAscending(index \div PageSize + 1,
                                         (index + amt - 1) \div PageSize + 1),
                         index, index + amt)

\* The second call fetched two pages again and returned a list that differs
\* from the one of the first call, upstream having changed in between.
C18_Witness ==
    /\ ncall = 2
    /\ pc = "returned"
    /\ ~objects.returned
    /\ Len(calls) = 2
    /\ prev # <<>>
    /\ result # prev

(***************************************************************************)
(* C20: once issued no page-fetch task is abandoned: every page fetch that *)
(* was started eventually completes or fails, also after a sibling fetch   *)
(* failed and also under the synchronous facade.  Stated as claimed.       *)
(***************************************************************************)
C20_EveryTaskFinishes ==
    (NumPending + orphans > 0) ~> (NumPending + orphans = 0)

(***************************************************************************)
(* C16: Lomography.close() closes the session and then the loop if the     *)
(* instance created the loop; with a caller-supplied loop it closes the    *)
(* session, leaves the loop open and completes without raising.            *)
(* Stated as claimed, for a close() made while the loop is not running.    *)
(***************************************************************************)
C16_CloseContract ==
    (op.name \in {"close", "__exit__"} /\ op.arg = "stopped") =>
        /\ lomo.session = "closed"
        /\ lomo.supplied = "no" => lomo.loop = "closed"
        /\ lomo.supplied = "yes" => (lomo.loop # "closed" /\ outcome = "ok")

(***************************************************************************)
(* C17: verify_authentication returns True when the probe request          *)
(* succeeds and returns False, rather than raising, when the probe is      *)
(* rejected with a non-success HTTP status.  Stated as claimed.            *)
(***************************************************************************)
C17_ProbeReturnsBool ==
    (op.name = "verify_authentication" /\ lomo.session = "open") =>
        /\ op.arg = "success" => outcome = "True"
        /\ op.arg = "status_error" => outcome = "False"

(***************************************************************************)
(* C19: run_async hands the coroutine's result or exception to its caller  *)
(* whenever the coroutine terminates, whether or not the loop is running   *)
(* at the call; it never blocks forever in the already-running branch: a   *)
(* run_async that waits can always go on.  Stated as claimed.              *)
(***************************************************************************)
C19_NeverBlocksForever ==
    (op.name = "run_async" /\ op.pc # "done") => ENABLED CoroutineFinish

(***************************************************************************)
(* C24: the list returned by the fetcher is concat[index : index + amt],   *)
(* concat being the concatenation of the fetched pages startPage..endPage: *)
(* the bounds are the absolute index and index + amt, not offsets within   *)
(* the first fetched page, and both are clamped to len(concat).            *)
(***************************************************************************)
C24_AbsoluteSlice ==
    pc = "returned" =>
        LET concat == ConcatAscending(index \div PageSize + 1,
                                      (index + amt - 1) \div PageSize + 1)
            lo == Min(index, Len(concat))
            hi == Min(index + amt, Len(concat))
        IN  /\ Len(result) = Max(0, hi - lo)
            /\ \A k \in 1..Len(result) : result[k] = concat[lo + k]

\* A window that starts on page 2 came back empty although upstream holds
\* items at index: the fetched page is shorter than the absolute index.
C24_Witness ==
    /\ pc = "returned"
    /\ amt >= 1
    /\ index >= PageSize
    /\ total > index
    /\ calls = << index \div PageSize + 1 >>
    /\ result = <<>>

(***************************************************************************)
(* C25: for a window that starts on the first page (0 <= index < 20) and   *)
(* amt >= 1, with gap-free pages of 20 and all fetches succeeding, the     *)
(* returned list is the items at positions [index, index + amt) of the     *)
(* full upstream sequence, truncated at the end of the data.               *)
(***************************************************************************)
C25_FirstPageWindow ==
    (pc = "returned" /\ amt >= 1 /\ index < PageSize) =>
        /\ Len(result) = Min(amt, Max(0, total - index))
        /\ \A k \in 1..Len(result) : result[k] = index + k - 1

\* A window from inside page 1 into page 2 was cut at the end of the data.
C25_Witness ==
    /\ pc = "returned"
    /\ index \in 1..(PageSize - 1)
    /\ index + amt > total
    /\ total > PageSize
    /\ Len(calls) = 2
    /\ Len(result) = total - index

(***************************************************************************)
(* C28: at the start of every synchronous windowed call on a client no     *)
(* page-fetch task created by an earlier call on that client is still      *)
(* pending on the client's event loop, also when the earlier call ended    *)
(* with a page-fetch failure.  Stated as claimed.                          *)
(***************************************************************************)
C28_NoLeftoverTasks ==
    (facade = "sync" /\ pc = "loop" /\ tasks = <<>>) => orphans = 0

(***************************************************************************)
(* C22: the three fetchers are the same algorithm: whichever copy is       *)
(* called (photos, cameras, films), for the same (amt, index) and the same *)
(* upstream pages the page fetches issued and the item sequence returned   *)
(* are the same function of (amt, index) and the pages.                    *)
(***************************************************************************)
C22_SameAlgorithm ==
    \A kd \in Kinds :
        kind = kd =>
            /\ Issued => calls = PageRange(index \div PageSize + 1,
                                           (index + amt - 1) \div PageSize + 1)
            /\ pc = "returned" =>
                LET concat == ConcatAscending(index \div PageSize + 1,
                                              (index + amt - 1) \div PageSize + 1)
                IN  /\ Len(result) =
                           Max(0, Min(index + amt, Len(concat)) - Min(index, Len(concat)))
                    /\ \A k \in 1..Len(result) : result[k] = concat[index + k]

\* The cameras copy returned a window that spans two pages.
C22_Witness ==
    /\ kind = "cameras"
    /\ pc = "returned"
    /\ Len(calls) = 2
    /\ Len(result) >= 2
    /\ result[1] < PageSize
    /\ result[Len(result)] >= PageSize

(***************************************************************************)
(* C29: leaving the context manager always closes the client: after the    *)
(* exit from `with Lomography(...)` or `async with AsyncLomography(...)`,  *)
(* whether the body finished normally or raised, no session of the client  *)
(* is left open; a session exists from the end of Lomography.__init__ on.  *)
(* Stated as claimed.                                                      *)
(***************************************************************************)
C29_ExitCloses ==
    /\ op.name \in {"__exit__", "__aexit__"} => lomo.session # "open"
    /\ lomo.cls = "Lomography" => lomo.session # "none"

(***************************************************************************)
(* C21: two windowed calls running concurrently on one AsyncLomography     *)
(* client each return, under every interleaving of their page-fetch tasks, *)
(* exactly what they return when run alone: each issues the fetches of its *)
(* own page range, returns the slice of the concatenation of its own       *)
(* pages, and fails only when one of its own fetches failed.               *)
(***************************************************************************)
C21_CallsIndependent ==
    \A c \in 1..Len(duo) :
        LET d == duo[c]
            concat == ConcatAscending(d.index \div PageSize + 1,
                                      (d.index + d.amt - 1) \div PageSize + 1)
        IN  /\ d.pc \in {"gather", "returned", "raised"} =>
                /\ d.calls = PageRange(d.index \div PageSize + 1,
                                       (d.index + d.amt - 1) \div PageSize + 1)
                /\ Len(d.tasks) = Len(d.calls)
            /\ d.pc = "returned" =>
                /\ Len(d.result) =
                       Max(0, Min(d.index + d.amt, Len(concat)) - Min(d.index, Len(concat)))
                /\ \A k \in 1..Len(d.result) : d.result[k] = concat[d.index + k]
            /\ d.pc = "raised" =>
                \E k \in 1..Len(d.tasks) : d.tasks[k].state = "failed"

\* Both calls returned their own windows, the second one having been started
\* while the first was waiting for its fetches.
C21_Witness ==
    /\ duo[1].pc = "returned"
    /\ duo[2].pc = "returned"
    /\ Len(duo[1].calls) = 2
    /\ Len(duo[2].calls) = 1
    /\ Len(duo[1].result) >= 2
    /\ duo[2].result = << duo[2].index >>

(***************************************************************************)
(* C23: a page request answered with a non-success HTTP status, or failing *)
(* with a network error, surfaces from get() as a raised error and never   *)
(* as a decoded page; through the fetcher it becomes one failure of the    *)
(* whole windowed request, which returns no items.                         *)
(***************************************************************************)
C23_ErrorsRaise ==
    \A c \in 1..Len(duo) :
        /\ \A k \in 1..Len(duo[c].tasks) :
              duo[c].tasks[k].answer \in {"status_error", "network_error"} =>
                  duo[c].tasks[k].state = "failed"
        /\ (duo[c].pc \in {"returned", "raised"}
              /\ \E k \in 1..Len(duo[c].tasks) : duo[c].tasks[k].state = "failed") =>
                  (duo[c].pc = "raised" /\ duo[c].result = <<>>)

\* A two-page call raised: one page was answered with a non-success status,
\* the other one was fetched and decoded.
C23_Witness ==
    \E c \in 1..2 :
        /\ duo[c].pc = "raised"
        /\ Len(duo[c].tasks) = 2
        /\ duo[c].tasks[1].state = "done"
        /\ duo[c].tasks[2].answer = "status_error"

(***************************************************************************)
(* C26: at most one HTTP session is ever created per client: when the page *)
(* fetches of one or more windowed calls run concurrently and each calls   *)
(* create_session() through get(), exactly one ClientSession is            *)
(* constructed and every fetch uses it.                                    *)
(***************************************************************************)
C26_OneSession ==
    /\ nsess <= 1
    /\ \A c \in 1..Len(duo) : \A k \in 1..Len(duo[c].tasks) :
          duo[c].tasks[k].state # "pending" =>
              (nsess = 1 /\ duo[c].tasks[k].on = 1)

\* Fetches of both calls are in flight at the same time.
C26_Witness ==
    /\ nsess = 1
    /\ \A c \in 1..2 :
          /\ Len(duo[c].tasks) = 2
          /\ \A k \in 1..2 : duo[c].tasks[k].state = "requesting"

(***************************************************************************)
(* C27: after close() on an AsyncLomography client the session is never    *)
(* replaced: create_session() leaves the closed session in place, and a    *)
(* fetch started afterwards uses the closed session and fails.             *)
(***************************************************************************)
C27_ClosedStaysClosed ==
    [][lomo.session = "closed" =>
          /\ lomo'.session = "closed"
          /\ nsess' = nsess
          /\ \A c \in 1..Len(duo) : \A k \in 1..Len(duo[c].tasks) :
                (duo[c].tasks[k].state = "pending" /\ Len(duo'[c].tasks) >= k) =>
                    duo'[c].tasks[k].state \in {"pending", "failed"}]_vars

\* A call made after close() raised: its fetch was refused by the closed session.
C27_Witness ==
    /\ lomo.session = "closed"
    /\ \E c \in 1..2 :
          /\ duo[c].pc = "raised"
          /\ \E k \in 1..Len(duo[c].tasks) :
                /\ duo[c].tasks[k].state = "failed"
                /\ duo[c].tasks[k].answer = "RuntimeError"

====
